---- MODULE Spec2Model ----
(***************************************************************************)
(* Room registry, game engine and session handler of the multiplayer       *)
(* tic-tac-toe server (src/server.js).                                      *)
(*                                                                         *)
(* Time is counted in periods of the cleanup interval (60 s): one firing   *)
(* of the setInterval callback is one unit of `now`.                       *)
(***************************************************************************)
EXTENDS Integers, Sequences, FiniteSets, TLC

VARIABLES rooms,     \* the rooms store: live room code -> Room
          conn,      \* per connection: readyState, ws.roomCode, ws.symbol
          timers,    \* pending grace timers (setTimeout not yet fired/cleared)
          now,       \* Date.now(), in cleanup periods
          nextRid,   \* number of Room objects created so far (object identity)
          sent,      \* messages written to each observed connection by the last handler
          watch,     \* the connections whose incoming messages are observed
          cwBoard,   \* input of the pure-function check of checkWinner
          cwResult   \* its result

vars == <<rooms, conn, timers, now, nextRid, sent, watch, cwBoard, cwResult>>

----------------------------------------------------------------------------
(* Bounds of the model *)

NumConns == 3      \* connections accepted by the server
NumCodes == 2      \* room codes makeCode can draw
MaxRooms == 2      \* rooms created over a run
MaxLive  == 1      \* rooms in the store at a time
MaxRounds == 1     \* rounds a room plays to a decision on top of one another
MaxTime  == 1      \* cap of the clock, in cleanup periods
GameTime == 1      \* the same, in the runs of the game in depth

(* Program constants, in cleanup periods of 60 s *)

ROOM_TTL == 10
DISCONNECT_GRACE == 1

----------------------------------------------------------------------------
(* Values *)

Null   == "null"            \* null / undefined of a symbol-valued field
NoConn == 0                 \* null of a connection-valued field
NoCode == 0                 \* ws.roomCode = null

Conns   == 1..NumConns
Codes   == 1..NumCodes
Symbols == <<"X", "O">>     \* ['X','O'], in the order the code scans them
SymSet  == {"X", "O"}
Cells   == 0..8

Opp(s) == IF s = "X" THEN "O" ELSE "X"

(* A message's `index` is any JSON value.  A number is kept as twice its   *)
(* value, so that 0.5 is representable; other types carry no number.       *)
Num(i) == [type |-> "number", twice |-> 2 * i]
Half   == [type |-> "number", twice |-> 1]
NotNum == [type |-> "string", twice |-> 0]

IsInt(index)  == index.twice % 2 = 0
CellOf(index) == index.twice \div 2

(* The board is a JS array of 9 cells; assigning to a non-integer key adds *)
(* an own property beside the cells.                                       *)
FracKeys == {1}
EmptyBoard == [cell |-> [i \in Cells |-> Null], prop |-> [k \in FracKeys |-> Null]]

BoardGet(board, index) ==
  IF IsInt(index) THEN board.cell[CellOf(index)]
  ELSE IF index.twice \in FracKeys THEN board.prop[index.twice] ELSE Null

BoardSet(board, index, sym) ==
  IF IsInt(index) THEN [board EXCEPT !.cell[CellOf(index)] = sym]
  ELSE IF index.twice \in FracKeys THEN [board EXCEPT !.prop[index.twice] = sym]
  ELSE board

----------------------------------------------------------------------------
(* Helpers *)

\* Variant: the code drawn is not tested against the store
makeCodeUntested == Codes

\* makeCode: a code not in the store (the loop does not end when none is free)
makeCode == Codes \ DOMAIN rooms

NewRoom(rid) ==
  [ rid |-> rid,
    board |-> EmptyBoard,
    currentPlayer |-> "X",
    winner |-> Null, winningLine |-> <<>>,
    isDraw |-> FALSE, moveCount |-> 0,
    scores |-> [X |-> 0, O |-> 0, draws |-> 0],
    players |-> [X |-> NoConn, O |-> NoConn],
    disconnectTimers |-> [X |-> NoConn, O |-> NoConn],
    lastActivity |-> now ]

WIN_PATTERNS ==
  << <<0,1,2>>, <<3,4,5>>, <<6,7,8>>,
     <<0,3,6>>, <<1,4,7>>, <<2,5,8>>,
     <<0,4,8>>, <<2,4,6>> >>

\* Variant: a pattern wins on its first two cells alone
LineWinsOnTwo(cell, p) ==
  /\ cell[p[1]] # Null
  /\ cell[p[1]] = cell[p[2]]

LineWins(cell, p) ==
  /\ cell[p[1]] # Null
  /\ cell[p[1]] = cell[p[2]]
  /\ cell[p[1]] = cell[p[3]]

\* checkWinner on the cells: the first pattern of WIN_PATTERNS that wins
NoResult == [winner |-> Null, line |-> <<>>]
Pending  == [winner |-> "pending", line |-> <<>>]   \* checkWinner not yet called

checkWinner(cell) ==
  LET hits == {k \in 1..Len(WIN_PATTERNS) : LineWins(cell, WIN_PATTERNS[k])}
  IN IF hits = {} THEN NoResult
     ELSE LET k == CHOOSE m \in hits : \A n \in hits : m <= n
          IN [winner |-> cell[WIN_PATTERNS[k][1]], line |-> WIN_PATTERNS[k]]

IsOpen(c) == c # NoConn /\ conn[c].readyState = "open"

roomState(room, symbol) ==
  [ type |-> "state",
    board |-> room.board.cell,
    currentPlayer |-> room.currentPlayer,
    winner |-> room.winner,
    winningLine |-> room.winningLine,
    isDraw |-> room.isDraw,
    scores |-> room.scores,
    mySymbol |-> symbol,
    opponentConnected |-> room.players[Opp(symbol)] # NoConn,
    playerCount |-> (IF room.players.X # NoConn THEN 1 ELSE 0)
                    + (IF room.players.O # NoConn THEN 1 ELSE 0) ]

NoSent == [c \in Conns |-> <<>>]

\* send(ws, data): written to ws when ws is a connection in OPEN state (and
\* recorded when ws is observed)
send(out, ws, data) ==
  IF IsOpen(ws) /\ ws \in watch THEN [out EXCEPT ![ws] = Append(@, data)] ELSE out

\* Variant: every holder is sent X's view
broadcastRoomOneView(out, room) ==
  LET outX == send(out, room.players.X, roomState(room, "X"))
  IN send(outX, room.players.O, roomState(room, "X"))

\* broadcastRoom: X's view, then O's, each to the slot's open connection
broadcastRoom(out, room) ==
  LET outX == send(out, room.players.X, roomState(room, "X"))
  IN send(outX, room.players.O, roomState(room, "O"))

ErrorMsg(text) == [type |-> "error", message |-> text]

----------------------------------------------------------------------------
(* State after server start, with the connections accepted *)

Started ==
  /\ rooms = <<>>
  /\ conn = [c \in Conns |-> [readyState |-> "open", roomCode |-> NoCode, symbol |-> Null]]
  /\ timers = {}
  /\ now = 0
  /\ nextRid = 0
  /\ sent = NoSent
  /\ cwBoard = EmptyBoard.cell
  /\ cwResult = Pending

\* Every connection observed
Init == Started /\ watch = Conns

Frozen == UNCHANGED <<watch, cwBoard, cwResult>>

\* `delete rooms[code]`
DeleteRoom(rs, code) == [k \in DOMAIN rs \ {code} |-> rs[k]]

\* `rooms[code] = room` for a new or a live code
PutRoom(rs, code, room) == [k \in DOMAIN rs \cup {code} |-> IF k = code THEN room ELSE rs[k]]

----------------------------------------------------------------------------
(* Session handler.  Each handler runs to completion: XResult is the state  *)
(* it leaves (the variables it writes), X the step that takes it.           *)

\* type === 'create', with the code makeCode drew
CreateResult(c, symbol, code) ==
  LET room == [NewRoom(nextRid + 1) EXCEPT !.players[symbol] = c]
  IN [ rooms |-> PutRoom(rooms, code, room),
       conn  |-> [conn EXCEPT ![c].roomCode = code, ![c].symbol = symbol],
       sent  |-> send(send(NoSent, c, [type |-> "created", code |-> code, symbol |-> symbol]),
                      c, roomState(room, symbol)) ]

Create(c, symbol) ==
  /\ IsOpen(c)
  /\ \E code \in makeCode :
       LET res == CreateResult(c, symbol, code)
       IN rooms' = res.rooms /\ conn' = res.conn /\ sent' = res.sent
  /\ nextRid' = nextRid + 1
  /\ UNCHANGED <<timers, now>>
  /\ Frozen

\* A join message's `code` is the text of a code (0: of no code the server
\* draws), possibly in lower case and padded with blanks
JoinInputs ==
  [text : Codes \cup {NoCode}, lower : BOOLEAN, padded : BOOLEAN]

\* (msg.code || '').toString().toUpperCase().trim(): the key looked up
Normalize(msgCode) == [text |-> msgCode.text, lower |-> FALSE, padded |-> FALSE]
KeyOf(code) == [text |-> code, lower |-> FALSE, padded |-> FALSE]
Lookup(str) == {code \in DOMAIN rooms : KeyOf(code) = str}

\* Variant: the last free slot instead of the first
AvailableLast(room) ==
  LET free == {k \in 1..Len(Symbols) : room.players[Symbols[k]] = NoConn}
  IN IF free = {} THEN Null
     ELSE Symbols[CHOOSE m \in free : \A n \in free : m >= n]

\* ['X','O'].find(s => room.players[s] === null)
Available(room) ==
  LET free == {k \in 1..Len(Symbols) : room.players[Symbols[k]] = NoConn}
  IN IF free = {} THEN Null
     ELSE Symbols[CHOOSE m \in free : \A n \in free : m <= n]

\* clearTimeout(handle)
clearTimeout(ts, handle) == {t \in ts : t.ws # handle}

\* A pending timer is the closure of one close: its connection `ws` and `sym`
\* (which the callback reads), and the room object `room` the close found.
\* `claimed` and `held` are history the program does not keep: since the
\* timer was armed, a join has taken slot `sym` of that room (claimed), and a
\* join or a reshuffle has put a connection in it (held).
Claim(ts, rid, sym) ==
  {IF t.room = rid /\ t.sym = sym THEN [t EXCEPT !.claimed = TRUE, !.held = TRUE] ELSE t :
     t \in ts}

Hold(ts, room) ==
  {IF t.room = room.rid /\ room.players[t.sym] # NoConn THEN [t EXCEPT !.held = TRUE] ELSE t :
     t \in ts}

\* A handler that returns after sending `out`, having written nothing
Untouched(out) == [rooms |-> rooms, conn |-> conn, timers |-> timers, sent |-> out]

\* type === 'join'
JoinResult(c, msgCode) ==
  LET found == Lookup(Normalize(msgCode)) IN
  IF found = {}
  THEN Untouched(send(NoSent, c, ErrorMsg("Room not found")))
  ELSE LET code == CHOOSE k \in found : TRUE
           room == rooms[code]
           available == Available(room)
       IN IF available = Null
          THEN Untouched(send(NoSent, c, ErrorMsg("Room is full")))
          ELSE LET joined == [room EXCEPT !.disconnectTimers[available] = NoConn,
                                          !.players[available] = c,
                                          !.lastActivity = now]
               IN [ rooms  |-> PutRoom(rooms, code, joined),
                    conn   |-> [conn EXCEPT ![c].roomCode = code, ![c].symbol = available],
                    timers |-> Claim(IF room.disconnectTimers[available] # NoConn
                                     THEN clearTimeout(timers, room.disconnectTimers[available])
                                     ELSE timers,
                                     room.rid, available),
                    sent   |-> broadcastRoom(
                                 send(NoSent, c, [type |-> "joined", code |-> code,
                                                  symbol |-> available]),
                                 joined) ]

Join(c, msgCode) ==
  /\ IsOpen(c)
  /\ LET res == JoinResult(c, msgCode)
     IN rooms' = res.rooms /\ conn' = res.conn /\ timers' = res.timers /\ sent' = res.sent
  /\ UNCHANGED <<now, nextRid>>
  /\ Frozen

\* The values of `index` the model sends: every cell, the two neighbours of
\* the range, a fraction inside the range, and a value that is not a number
IndexInputs == {Num(i) : i \in -1..9} \cup {Half, NotNum}

\* Variant: the validity test without the test of the target cell
InvalidMoveAnyCell(room, index) ==
  \/ index.type # "number"
  \/ index.twice < 0
  \/ index.twice > 2 * 8
  \/ room.winner # Null
  \/ room.isDraw

\* Variant: the validity test without the tests of winner and isDraw
InvalidMoveAnyTime(room, index) ==
  \/ index.type # "number"
  \/ index.twice < 0
  \/ index.twice > 2 * 8
  \/ BoardGet(room.board, index) # Null

\* The validity test of a move (the condition of `Invalid move`)
InvalidMove(room, index) ==
  \/ index.type # "number"
  \/ index.twice < 0
  \/ index.twice > 2 * 8
  \/ BoardGet(room.board, index) # Null
  \/ room.winner # Null
  \/ room.isDraw

\* Variant: the turn passes on after every move, deciding or not
ApplyMoveAlwaysFlips(room, index, symbol) ==
  LET placed == [room EXCEPT !.board = BoardSet(@, index, symbol),
                             !.moveCount = @ + 1,
                             !.lastActivity = now,
                             !.currentPlayer = Opp(@)]
      result == checkWinner(placed.board.cell)
  IN IF result # NoResult
     THEN [placed EXCEPT !.winner = result.winner,
                         !.winningLine = result.line,
                         !.scores[result.winner] = @ + 1]
     ELSE IF placed.moveCount = 9
     THEN [placed EXCEPT !.isDraw = TRUE, !.scores.draws = @ + 1]
     ELSE placed

\* Variant: the ninth move is tested for a draw before it is tested for a win
ApplyMoveDrawFirst(room, index, symbol) ==
  LET placed == [room EXCEPT !.board = BoardSet(@, index, symbol),
                             !.moveCount = @ + 1,
                             !.lastActivity = now]
      result == checkWinner(placed.board.cell)
  IN IF placed.moveCount = 9
     THEN [placed EXCEPT !.isDraw = TRUE, !.scores.draws = @ + 1]
     ELSE IF result # NoResult
     THEN [placed EXCEPT !.winner = result.winner,
                         !.winningLine = result.line,
                         !.scores[result.winner] = @ + 1]
     ELSE [placed EXCEPT !.currentPlayer = Opp(@)]

\* Variant: a win is put on the score of the other symbol
ApplyMoveCreditsOther(room, index, symbol) ==
  LET placed == [room EXCEPT !.board = BoardSet(@, index, symbol),
                             !.moveCount = @ + 1,
                             !.lastActivity = now]
      result == checkWinner(placed.board.cell)
  IN IF result # NoResult
     THEN [placed EXCEPT !.winner = result.winner,
                         !.winningLine = result.line,
                         !.scores[Opp(result.winner)] = @ + 1]
     ELSE IF placed.moveCount = 9
     THEN [placed EXCEPT !.isDraw = TRUE, !.scores.draws = @ + 1]
     ELSE [placed EXCEPT !.currentPlayer = Opp(@)]

\* The room after an accepted move of `symbol` at `index`
ApplyMove(room, index, symbol) ==
  LET placed == [room EXCEPT !.board = BoardSet(@, index, symbol),
                             !.moveCount = @ + 1,
                             !.lastActivity = now]
      result == checkWinner(placed.board.cell)
  IN IF result # NoResult
     THEN [placed EXCEPT !.winner = result.winner,
                         !.winningLine = result.line,
                         !.scores[result.winner] = @ + 1]
     ELSE IF placed.moveCount = 9
     THEN [placed EXCEPT !.isDraw = TRUE, !.scores.draws = @ + 1]
     ELSE [placed EXCEPT !.currentPlayer = Opp(@)]

\* type === 'move'
MoveResult(c, index) ==
  LET ws == conn[c] IN
  IF ws.roomCode \notin DOMAIN rooms
  THEN Untouched(NoSent)
  ELSE LET room == rooms[ws.roomCode] IN
       IF room.currentPlayer # ws.symbol
       THEN Untouched(send(NoSent, c, ErrorMsg("Not your turn")))
       ELSE IF InvalidMove(room, index)
       THEN Untouched(send(NoSent, c, ErrorMsg("Invalid move")))
       ELSE LET moved == ApplyMove(room, index, ws.symbol)
            IN [Untouched(broadcastRoom(NoSent, moved))
                  EXCEPT !.rooms = PutRoom(rooms, ws.roomCode, moved)]

Move(c, index) ==
  /\ IsOpen(c)
  /\ LET res == MoveResult(c, index)
     IN rooms' = res.rooms /\ sent' = res.sent
  /\ UNCHANGED <<conn, timers, now, nextRid>>
  /\ Frozen

\* reshufflePlayers: the two slot holders, reversed or not, put back as X and O
ShuffledPlayers(room, reverse) ==
  IF reverse THEN [X |-> room.players.O, O |-> room.players.X]
  ELSE room.players

reshufflePlayers(room, reverse) ==
  [room EXCEPT !.players = ShuffledPlayers(room, reverse), !.currentPlayer = "X"]

\* `players[0].symbol = 'X'` and then `players[1].symbol = 'O'`, on whatever
\* connection objects the slots hold
Resymbol(cn, players) ==
  [c \in Conns |->
     IF c = players.O THEN [cn[c] EXCEPT !.symbol = "O"]
     ELSE IF c = players.X THEN [cn[c] EXCEPT !.symbol = "X"]
     ELSE cn[c]]

\* The symbolUpdate notices and the broadcast that end reset and new
NotifySymbols(room) ==
  LET outX == send(NoSent, room.players.X, [type |-> "symbolUpdate", symbol |-> "X"])
      outO == send(outX, room.players.O, [type |-> "symbolUpdate", symbol |-> "O"])
  IN broadcastRoom(outO, room)

\* Variant: a reset that wipes the scores
ResetFieldsWiped(room) ==
  [room EXCEPT !.board = EmptyBoard, !.currentPlayer = "X",
               !.winner = Null, !.winningLine = <<>>,
               !.isDraw = FALSE, !.moveCount = 0,
               !.scores = [X |-> 0, O |-> 0, draws |-> 0]]

\* Variant: a new that keeps the scores
NewFieldsKept(room) ==
  [room EXCEPT !.board = EmptyBoard, !.currentPlayer = "X",
               !.winner = Null, !.winningLine = <<>>,
               !.isDraw = FALSE, !.moveCount = 0,
               !.scores = room.scores]

\* The fields Object.assign overwrites on reset (scores kept)
ResetFields(room) ==
  [room EXCEPT !.board = EmptyBoard, !.currentPlayer = "X",
               !.winner = Null, !.winningLine = <<>>,
               !.isDraw = FALSE, !.moveCount = 0,
               !.scores = room.scores]

\* The fields Object.assign overwrites on new (scores wiped)
NewFields(room) ==
  [room EXCEPT !.board = EmptyBoard, !.currentPlayer = "X",
               !.winner = Null, !.winningLine = <<>>,
               !.isDraw = FALSE, !.moveCount = 0,
               !.scores = [X |-> 0, O |-> 0, draws |-> 0]]

\* The common tail of reset and new, on the room with its fields overwritten
Restart(c, cleared, reverse) ==
  LET room == [reshufflePlayers(cleared, reverse) EXCEPT !.lastActivity = now]
  IN [ rooms  |-> PutRoom(rooms, conn[c].roomCode, room),
       conn   |-> Resymbol(conn, room.players),
       timers |-> Hold(timers, room),
       sent   |-> NotifySymbols(room) ]

\* type === 'reset'
ResetResult(c, reverse) ==
  IF conn[c].roomCode \notin DOMAIN rooms
  THEN Untouched(NoSent)
  ELSE Restart(c, ResetFields(rooms[conn[c].roomCode]), reverse)

Reset(c, reverse) ==
  /\ IsOpen(c)
  /\ LET res == ResetResult(c, reverse)
     IN rooms' = res.rooms /\ conn' = res.conn /\ timers' = res.timers /\ sent' = res.sent
  /\ UNCHANGED <<now, nextRid>>
  /\ Frozen

\* type === 'new'
NewResult(c, reverse) ==
  IF conn[c].roomCode \notin DOMAIN rooms
  THEN Untouched(NoSent)
  ELSE Restart(c, NewFields(rooms[conn[c].roomCode]), reverse)

New(c, reverse) ==
  /\ IsOpen(c)
  /\ LET res == NewResult(c, reverse)
     IN rooms' = res.rooms /\ conn' = res.conn /\ timers' = res.timers /\ sent' = res.sent
  /\ UNCHANGED <<now, nextRid>>
  /\ Frozen

\* send to a connection of `cn`, the connections as the handler sees them
sendIn(cn, out, ws, data) ==
  IF ws # NoConn /\ cn[ws].readyState = "open" /\ ws \in watch
  THEN [out EXCEPT ![ws] = Append(@, data)] ELSE out

\* ws.on('close'): the connection has left OPEN state; its slot is cleared and
\* the grace timer armed when it has a live room and a symbol
CloseResult(c) ==
  LET ws == conn[c]
      closed == [conn EXCEPT ![c].readyState = "closed"]
  IN IF ws.roomCode \notin DOMAIN rooms \/ ws.symbol = Null
     THEN [Untouched(NoSent) EXCEPT !.conn = closed]
     ELSE LET sym == ws.symbol
              room == rooms[ws.roomCode]
              left == [room EXCEPT !.players[sym] = NoConn]
              oppWs == left.players[Opp(sym)]
          IN [ rooms  |-> PutRoom(rooms, ws.roomCode,
                                  [left EXCEPT !.disconnectTimers[sym] = c]),
               conn   |-> closed,
               timers |-> timers \cup
                            {[ws |-> c, sym |-> sym, due |-> now + DISCONNECT_GRACE,
                              room |-> room.rid, claimed |-> FALSE, held |-> FALSE]},
               sent   |-> sendIn(closed, NoSent, oppWs,
                                 [type |-> "opponentLeft", gracePeriod |-> 60]) ]

Close(c) ==
  /\ IsOpen(c)
  /\ LET res == CloseResult(c)
     IN rooms' = res.rooms /\ conn' = res.conn /\ timers' = res.timers /\ sent' = res.sent
  /\ UNCHANGED <<now, nextRid>>
  /\ Frozen

\* The callback of timer t, run on store rs with connections cn, deletes a
\* room: rooms[ws.roomCode] exists and its slot `sym` is null
TimerDestroys(rs, cn, t) ==
  /\ cn[t.ws].roomCode \in DOMAIN rs
  /\ rs[cn[t.ws].roomCode].players[t.sym] = NoConn

\* The setTimeout callback of a close
TimerFireResult(t) ==
  LET code == conn[t.ws].roomCode IN
  IF code \notin DOMAIN rooms
  THEN Untouched(NoSent)
  ELSE LET r == rooms[code] IN
       IF TimerDestroys(rooms, conn, t)
       THEN [Untouched(send(NoSent, r.players[Opp(t.sym)],
                            [type |-> "roomClosed", reason |-> "Opponent did not reconnect"]))
               EXCEPT !.rooms = DeleteRoom(rooms, code)]
       ELSE Untouched(NoSent)

\* It runs once its delay has passed
TimerFire(t) ==
  /\ t \in timers
  /\ now >= t.due
  /\ timers' = timers \ {t}
  /\ LET res == TimerFireResult(t)
     IN rooms' = res.rooms /\ sent' = res.sent
  /\ UNCHANGED <<conn, now, nextRid>>
  /\ Frozen

\* The store after the setInterval callback has run at time `at`
SweepResult(at) ==
  [k \in {code \in DOMAIN rooms : ~(at - rooms[code].lastActivity > ROOM_TTL)} |-> rooms[k]]

\* The setInterval callback: one cleanup period has passed (every timer that
\* was due has fired), and the rooms idle for longer than ROOM_TTL go
Sweep ==
  /\ \A t \in timers : t.due > now
  /\ now' = now + 1
  /\ rooms' = SweepResult(now + 1)
  /\ sent' = NoSent
  /\ UNCHANGED <<conn, timers, nextRid>>
  /\ Frozen

----------------------------------------------------------------------------
(* Bounding of the runs: counters that the program lets grow without limit *)

\* The room c would move in has fewer than MaxRounds decided rounds on its scores
RoundsLeft(c) ==
  conn[c].roomCode \in DOMAIN rooms =>
    LET scores == rooms[conn[c].roomCode].scores
    IN scores.X + scores.O + scores.draws < MaxRounds

----------------------------------------------------------------------------
(* The server: every handler on every connection, with a few cells to play *)

LifeIndexInputs == {Num(0), Half}

\* The join messages sent: each code and no code, as printed or in lower case
\* with blanks around it
LifeJoinInputs == {m \in JoinInputs : m.lower = m.padded}

Next ==
  \/ \E c \in Conns, symbol \in SymSet :
       nextRid < MaxRooms /\ Cardinality(DOMAIN rooms) < MaxLive /\ Create(c, symbol)
  \/ \E c \in Conns, msgCode \in LifeJoinInputs : Join(c, msgCode)
  \/ \E c \in Conns, index \in LifeIndexInputs : RoundsLeft(c) /\ Move(c, index)
  \/ \E c \in Conns, reverse \in BOOLEAN : Reset(c, reverse)
  \/ \E c \in Conns, reverse \in BOOLEAN : New(c, reverse)
  \/ \E c \in Conns : Close(c)
  \/ \E t \in timers : TimerFire(t)
  \/ now < MaxTime /\ Sweep

Spec == Init /\ [][Next]_vars

----------------------------------------------------------------------------
(* The game in depth: connection 1 creates a room, connection 2 joins it,   *)
(* and both play every cell; connection 1 also sends the indices that are   *)
(* no cell, and the resets and news.                                       *)

Host  == {1}
Guest == {2}
CellInputs == {Num(i) : i \in Cells}
GameJoinInputs == {m \in JoinInputs : m.text # NoCode /\ ~m.lower /\ ~m.padded}

NextGame ==
  \/ \E c \in Host, symbol \in SymSet : nextRid < 1 /\ Create(c, symbol)
  \/ \E c \in Guest, msgCode \in GameJoinInputs : Join(c, msgCode)
  \/ \E c \in Host, index \in IndexInputs : RoundsLeft(c) /\ Move(c, index)
  \/ \E c \in Guest, index \in CellInputs : RoundsLeft(c) /\ Move(c, index)
  \/ \E c \in Host, reverse \in BOOLEAN : Reset(c, reverse)
  \/ \E c \in Host, reverse \in BOOLEAN : New(c, reverse)

\* No connection observed
InitGame == Started /\ watch = {}

SpecGame == InitGame /\ [][NextGame]_vars

(* The replies to moves: one round of the same game with connection 1 as X, *)
(* every connection observed and the clock running.                        *)

IntIndexInputs == {i \in IndexInputs : i.type = "number" /\ IsInt(i)}

NextReplies ==
  \/ \E c \in Host : nextRid < 1 /\ Create(c, "X")
  \/ \E c \in Guest, msgCode \in GameJoinInputs : Join(c, msgCode)
  \/ \E c \in Host, index \in IntIndexInputs : Move(c, index)
  \/ \E c \in Guest, index \in CellInputs : Move(c, index)
  \/ now < GameTime /\ Sweep

SpecReplies == Init /\ [][NextReplies]_vars

(* The registry: rooms created side by side, joined, left and destroyed,   *)
(* with no game played in them.                                            *)

NextRooms ==
  \/ \E c \in Conns, symbol \in SymSet : nextRid < MaxRooms /\ Create(c, symbol)
  \/ \E c \in Conns, msgCode \in GameJoinInputs : Join(c, msgCode)
  \/ \E c \in Conns : Close(c)
  \/ \E t \in timers : TimerFire(t)
  \/ now < MaxTime /\ Sweep

SpecRooms == InitGame /\ [][NextRooms]_vars

(* The sessions: connections that create and join rooms side by side, and  *)
(* restart and play in the room they are bound to; nobody leaves.          *)

NextSessions ==
  \/ \E c \in Conns, symbol \in SymSet : nextRid < MaxRooms /\ Create(c, symbol)
  \/ \E c \in Conns, msgCode \in GameJoinInputs : Join(c, msgCode)
  \/ \E c \in Conns, reverse \in BOOLEAN : Reset(c, reverse)
  \/ \E c \in Conns, index \in LifeIndexInputs : RoundsLeft(c) /\ Move(c, index)

SpecSessions == InitGame /\ [][NextSessions]_vars

(* checkWinner as a pure function: called once on any board of 9 cells *)

Boards == [Cells -> {Null, "X", "O"}]

CallCheckWinner ==
  /\ cwResult = Pending
  /\ cwResult' = checkWinner(cwBoard)
  /\ UNCHANGED <<rooms, conn, timers, now, nextRid, sent, watch, cwBoard>>

InitCheckWinner ==
  /\ rooms = <<>> /\ timers = {} /\ now = 0 /\ nextRid = 0 /\ sent = NoSent /\ watch = {}
  /\ conn = [c \in Conns |-> [readyState |-> "open", roomCode |-> NoCode, symbol |-> Null]]
  /\ cwBoard \in Boards
  /\ cwResult = Pending

SpecCheckWinner == InitCheckWinner /\ [][CallCheckWinner]_vars

----------------------------------------------------------------------------
(* Vocabulary of the properties.  A property of a handler is stated of its  *)
(* result in every reachable state in which the message can arrive.        *)

RoomOf(c) == conn[c].roomCode

\* c is an open connection whose ws.roomCode names a room of the store
InRoom(c) == IsOpen(c) /\ RoomOf(c) \in DOMAIN rooms

\* The game fields of a room
Game(room) ==
  <<room.board, room.moveCount, room.currentPlayer, room.winner, room.isDraw, room.scores>>

Decided(room) == room.winner # Null \/ room.isDraw

\* The room of c after c's move with `index`
Moved(c, index) == MoveResult(c, index).rooms[RoomOf(c)]

\* The lines of the 3x3 board: rows top to bottom, columns left to right,
\* then the diagonal from cell 0 and the diagonal from cell 2
Lines ==
  [k \in 1..8 |->
     IF k <= 3 THEN <<3 * (k - 1), 3 * (k - 1) + 1, 3 * (k - 1) + 2>>
     ELSE IF k <= 6 THEN <<k - 4, k - 4 + 3, k - 4 + 6>>
     ELSE IF k = 7 THEN <<0, 4, 8>> ELSE <<2, 4, 6>>]

FullLine(cell, k) ==
  \E sym \in SymSet : \A j \in 1..3 : cell[Lines[k][j]] = sym

HasLine(cell) == \E k \in 1..8 : FullLine(cell, k)

\* The preconditions the specification puts on a move
MovePre(c, index) ==
  /\ InRoom(c)
  /\ LET room == rooms[RoomOf(c)] IN
       /\ room.currentPlayer = conn[c].symbol
       /\ index.type = "number"
       /\ IsInt(index)
       /\ CellOf(index) \in Cells
       /\ room.board.cell[CellOf(index)] = Null
       /\ ~Decided(room)

\* C1 (as claimed): a move changes the game fields of a room only when the
\* sender is bound to a live room, it is the sender's turn, the index is an
\* integer in 0..8, the cell is empty and the game is undecided; every other
\* move leaves board, moveCount, currentPlayer, winner, isDraw and scores alone.
C1_MoveOnlyWhenValid ==
  \A c \in Conns, index \in IndexInputs :
    (IsOpen(c) /\ ~MovePre(c, index)) =>
      LET after == MoveResult(c, index).rooms
      IN /\ DOMAIN after = DOMAIN rooms
         /\ \A code \in DOMAIN rooms : Game(after[code]) = Game(rooms[code])

\* The handler answers c with one error, writes to nobody else, and leaves
\* the store, the connections and the timers as they were
RejectedWith(res, c, text) ==
  /\ res.sent[c] = <<ErrorMsg(text)>>
  /\ \A d \in Conns \ {c} : res.sent[d] = <<>>
  /\ res.rooms = rooms /\ res.conn = conn /\ res.timers = timers

\* The move of c targets an occupied index or a decided game
OccupiedOrDecided(c, index) ==
  /\ InRoom(c)
  /\ LET room == rooms[RoomOf(c)] IN
       \/ Decided(room)
       \/ /\ index.type = "number" /\ index.twice >= 0 /\ index.twice <= 2 * 8
          /\ BoardGet(room.board, index) # Null

\* C2 (as claimed): a move on an occupied index, or by either player once the
\* game is decided, is answered with `Invalid move` to the sender only, and
\* changes nothing in the room (board, moveCount, currentPlayer, scores,
\* lastActivity) and broadcasts nothing.
C2_AlwaysInvalidMove ==
  \A c \in Conns, index \in IndexInputs :
    OccupiedOrDecided(c, index) =>
      RejectedWith(MoveResult(c, index), c, "Invalid move")

\* C2 (amended): such a move is answered with one error to the sender only,
\* `Invalid move` when it is the sender's turn and `Not your turn` when it
\* is not, and changes nothing in the room and broadcasts nothing.
C2_RejectedNoEffect ==
  \A c \in Conns, index \in IndexInputs :
    OccupiedOrDecided(c, index) =>
      RejectedWith(MoveResult(c, index), c,
                   IF rooms[RoomOf(c)].currentPlayer = conn[c].symbol
                   THEN "Invalid move" ELSE "Not your turn")

\* C2 witness: a drawn game, idle since the clock last advanced, whose
\* player on turn has just been answered `Invalid move`
C2_Witness ==
  \E code \in DOMAIN rooms, c \in Conns :
    /\ rooms[code].isDraw
    /\ rooms[code].lastActivity < now
    /\ RoomOf(c) = code
    /\ sent[c] = <<ErrorMsg("Invalid move")>>

\* Every room of the store is in `after` with field f(room) as before,
\* except the rooms of `but`
Keeps(after, f(_), but) ==
  \A code \in DOMAIN rooms \ but :
    code \in DOMAIN after => f(after[code]) = f(rooms[code])

\* The results of the handlers that are no move, reset or new, in this state:
\* each leaves f(room) as it is in every room that stays in the store
OthersKeep(f(_)) ==
  /\ \A c \in Conns, symbol \in SymSet, code \in makeCode :
       IsOpen(c) => Keeps(CreateResult(c, symbol, code).rooms, f, {})
  /\ \A c \in Conns, msgCode \in JoinInputs :
       IsOpen(c) => Keeps(JoinResult(c, msgCode).rooms, f, {})
  /\ \A c \in Conns : IsOpen(c) => Keeps(CloseResult(c).rooms, f, {})
  /\ \A t \in timers : Keeps(TimerFireResult(t).rooms, f, {})
  /\ Keeps(SweepResult(now + 1), f, {})

Turn(room) == room.currentPlayer

\* C3: an accepted move that leaves the game undecided hands the turn to the
\* other symbol; one that decides it (win or draw) leaves currentPlayer as it
\* was; a rejected move changes no room; reset and new set currentPlayer to X
\* in the sender's room; nothing else changes the currentPlayer of any room.
C3_TurnAlternation ==
  /\ \A c \in Conns, index \in IndexInputs :
       InRoom(c) =>
         LET room == rooms[RoomOf(c)]
             after == Moved(c, index)
         IN /\ Keeps(MoveResult(c, index).rooms, Turn, {RoomOf(c)})
            /\ after # room =>
                 /\ after.moveCount = room.moveCount + 1
                 /\ after.currentPlayer =
                      IF Decided(after) THEN room.currentPlayer
                      ELSE Opp(room.currentPlayer)
  /\ \A c \in Conns, reverse \in BOOLEAN :
       InRoom(c) =>
         /\ ResetResult(c, reverse).rooms[RoomOf(c)].currentPlayer = "X"
         /\ NewResult(c, reverse).rooms[RoomOf(c)].currentPlayer = "X"
         /\ Keeps(ResetResult(c, reverse).rooms, Turn, {RoomOf(c)})
         /\ Keeps(NewResult(c, reverse).rooms, Turn, {RoomOf(c)})
  /\ OthersKeep(Turn)

\* C3 witness: O has won with its third symbol, and the turn is still O's
C3_Witness ==
  \E code \in DOMAIN rooms :
    /\ rooms[code].winner = "O"
    /\ rooms[code].currentPlayer = "O"
    /\ rooms[code].moveCount = 6

\* C4: winner and isDraw are never both set; in a decided room no move of
\* any connection with any index is accepted, and no handler other than reset
\* and new changes the board, winner or isDraw of a decided room.
C4_DecidedIsFinal ==
  /\ \A code \in DOMAIN rooms : ~(rooms[code].winner # Null /\ rooms[code].isDraw)
  /\ \A c \in Conns, index \in IndexInputs :
       (InRoom(c) /\ Decided(rooms[RoomOf(c)])) => MoveResult(c, index).rooms = rooms
  /\ \A code \in DOMAIN rooms :
       Decided(rooms[code]) => OthersKeep(Game)

\* C4 witness: a game won while cells are still empty
C4_Witness ==
  \E code \in DOMAIN rooms :
    /\ rooms[code].winner # Null
    /\ rooms[code].moveCount = 5
    /\ \E i \in Cells : rooms[code].board.cell[i] = Null

AllFilled(room) == \A i \in Cells : room.board.cell[i] # Null

\* C5: isDraw is set exactly when moveCount is 9 and there is no winner; a
\* board of 9 symbols without a line is a draw with no winner, one with a line
\* is a win and no draw; and the ninth legal move of a round, on a board of 8
\* symbols, ends it as a draw with scores.draws one higher when it completes
\* no line, and as a win with scores.draws as it was when it completes one.
C5_NineMovesDraw ==
  /\ \A code \in DOMAIN rooms :
       LET room == rooms[code] IN
         /\ room.isDraw <=> (room.moveCount = 9 /\ room.winner = Null)
         /\ AllFilled(room) =>
              IF HasLine(room.board.cell)
              THEN room.winner # Null /\ ~room.isDraw
              ELSE room.winner = Null /\ room.isDraw
  /\ \A c \in Conns, index \in IndexInputs :
       (MovePre(c, index) /\ rooms[RoomOf(c)].moveCount = 8) =>
         LET room == rooms[RoomOf(c)]
             after == Moved(c, index)
         IN /\ after.moveCount = 9
            /\ IF HasLine(after.board.cell)
               THEN /\ after.winner # Null /\ ~after.isDraw
                    /\ after.scores.draws = room.scores.draws
               ELSE /\ after.winner = Null /\ after.isDraw
                    /\ after.scores = [room.scores EXCEPT !.draws = @ + 1]

\* C5 witness: nine symbols on the board, no winner, a draw counted
C5_Witness ==
  \E code \in DOMAIN rooms :
    /\ AllFilled(rooms[code])
    /\ rooms[code].isDraw
    /\ rooms[code].winner = Null
    /\ rooms[code].scores.draws = 1

\* The first full line of the board in the order of Lines
FirstFullLine(cell) ==
  CHOOSE k \in 1..8 : FullLine(cell, k) /\ \A n \in 1..(k - 1) : ~FullLine(cell, n)

\* C6: on every board of 9 cells over {empty, X, O}, checkWinner returns a
\* result exactly when a row, column or diagonal holds one symbol three times;
\* the result's line is then the first such line in the order rows top to
\* bottom, columns left to right, diagonal 0-4-8, diagonal 2-4-6, and its
\* winner is the symbol on that line.
C6_CheckWinnerFirstLine ==
  cwResult # Pending =>
    IF HasLine(cwBoard)
    THEN /\ cwResult # NoResult
         /\ cwResult.line = Lines[FirstFullLine(cwBoard)]
         /\ cwResult.winner \in SymSet
         /\ \A j \in 1..3 : cwBoard[cwResult.line[j]] = cwResult.winner
    ELSE cwResult = NoResult

\* C6 witness: the first column and the diagonal 0-4-8 are both full of X,
\* no row is full, and checkWinner has returned the column
C6_Witness ==
  /\ FullLine(cwBoard, 4)
  /\ FullLine(cwBoard, 7)
  /\ \A n \in 1..3 : ~FullLine(cwBoard, n)
  /\ cwResult = [winner |-> "X", line |-> <<0, 3, 6>>]

\* c's move with `index` is accepted: it changes c's room
Accepted(c, index) == InRoom(c) /\ Moved(c, index) # rooms[RoomOf(c)]

\* C7: an accepted move that completes a line sets winner to the mover's
\* symbol and winningLine to a line whose three cells hold it, and adds 1 to
\* that symbol's score and to no other counter; an accepted move that ends in
\* a draw adds 1 to scores.draws and to no other counter; an accepted move
\* that decides nothing leaves the scores as they were.
C7_ScoresOnMove ==
  \A c \in Conns, index \in IndexInputs :
    Accepted(c, index) =>
      LET room == rooms[RoomOf(c)]
          after == Moved(c, index)
          sym == conn[c].symbol
      IN /\ HasLine(after.board.cell) <=> after.winner # Null
         /\ after.winner # Null =>
              /\ after.winner = sym
              /\ \E k \in 1..8 : after.winningLine = Lines[k]
              /\ \A j \in 1..3 : after.board.cell[after.winningLine[j]] = sym
              /\ after.scores = [room.scores EXCEPT ![sym] = @ + 1]
         /\ after.isDraw => after.scores = [room.scores EXCEPT !.draws = @ + 1]
         /\ ~Decided(after) => after.scores = room.scores

\* C7 witness: O has won on a line of three O and has the round on its score
C7_Witness ==
  \E code \in DOMAIN rooms :
    LET room == rooms[code] IN
      /\ room.winner = "O"
      /\ room.winningLine = <<2, 4, 6>>
      /\ \A j \in 1..3 : room.board.cell[room.winningLine[j]] = "O"
      /\ room.scores = [X |-> 0, O |-> 1, draws |-> 0]

\* The slots hold the same connections, as they were or exchanged
SamePlayers(after, room) ==
  \/ after.players = room.players
  \/ after.players = [X |-> room.players.O, O |-> room.players.X]

\* The room has the fields of a fresh round
FreshRound(room) ==
  /\ room.board = EmptyBoard
  /\ room.winner = Null
  /\ room.winningLine = <<>>
  /\ ~room.isDraw
  /\ room.moveCount = 0
  /\ room.currentPlayer = "X"

\* C8: a reset from a connection bound to a room of the store leaves the
\* room's scores as they were, its board empty, winner, winningLine and isDraw
\* cleared, moveCount 0 and currentPlayer X, and its two slots with the same
\* connections, exchanged or not; no other room changes.
C8_ResetKeepsScores ==
  \A c \in Conns, reverse \in BOOLEAN :
    InRoom(c) =>
      LET room == rooms[RoomOf(c)]
          res == ResetResult(c, reverse)
          after == res.rooms[RoomOf(c)]
      IN /\ DOMAIN res.rooms = DOMAIN rooms
         /\ after.scores = room.scores
         /\ FreshRound(after)
         /\ SamePlayers(after, room)
         /\ {after.players.X, after.players.O} = {room.players.X, room.players.O}
         /\ \A code \in DOMAIN rooms \ {RoomOf(c)} : res.rooms[code] = rooms[code]

\* C8 witness: a fresh round in a room of two players that has a round on its
\* scores, as a reset after a decided game leaves it
C8_Witness ==
  \E code \in DOMAIN rooms :
    LET room == rooms[code] IN
      /\ FreshRound(room)
      /\ room.scores.X + room.scores.O + room.scores.draws = 1
      /\ room.players.X # NoConn /\ room.players.O # NoConn

\* C9: a new from a connection bound to a room of the store leaves the room's
\* scores at X = O = draws = 0 whatever they were, and everything else of the
\* store as a reset with the same shuffle leaves it.
C9_NewZeroesScores ==
  \A c \in Conns, reverse \in BOOLEAN :
    InRoom(c) =>
      LET res == NewResult(c, reverse)
          after == res.rooms[RoomOf(c)]
          reset == ResetResult(c, reverse)
      IN /\ after.scores = [X |-> 0, O |-> 0, draws |-> 0]
         /\ FreshRound(after)
         /\ after = [reset.rooms[RoomOf(c)] EXCEPT !.scores = after.scores]
         /\ DOMAIN res.rooms = DOMAIN rooms
         /\ \A code \in DOMAIN rooms \ {RoomOf(c)} : res.rooms[code] = rooms[code]
         /\ res.conn = reset.conn /\ res.timers = reset.timers

\* C9 witness: the host is in a room whose game O has won, with the round on
\* the scores, and its new leaves the scores at zero
C9_Witness ==
  \E c \in Host :
    /\ InRoom(c)
    /\ rooms[RoomOf(c)].winner = "O"
    /\ rooms[RoomOf(c)].scores.O = 1
    /\ NewResult(c, TRUE).rooms[RoomOf(c)].scores = [X |-> 0, O |-> 0, draws |-> 0]
    /\ NewResult(c, TRUE).rooms[RoomOf(c)].scores # ResetResult(c, TRUE).rooms[RoomOf(c)].scores

\* C10: a join whose code names no room of the store is answered `Room not
\* found`, one whose room has both slots occupied is answered `Room is full`,
\* and both leave the store, the connections and the timers as they were; any
\* other join puts the sender in slot X when X is free and in slot O when it
\* is not, leaves the other slot and every other room as they were, and binds
\* the sender to the code and the slot.
C10_JoinSlots ==
  \A c \in Conns, msgCode \in JoinInputs :
    IsOpen(c) =>
      LET res == JoinResult(c, msgCode)
          code == msgCode.text
      IN IF code \notin DOMAIN rooms
         THEN RejectedWith(res, c, "Room not found")
         ELSE IF rooms[code].players.X # NoConn /\ rooms[code].players.O # NoConn
         THEN RejectedWith(res, c, "Room is full")
         ELSE LET slot == IF rooms[code].players.X = NoConn THEN "X" ELSE "O"
              IN /\ DOMAIN res.rooms = DOMAIN rooms
                 /\ res.rooms[code].players = [rooms[code].players EXCEPT ![slot] = c]
                 /\ \A k \in DOMAIN rooms \ {code} : res.rooms[k] = rooms[k]
                 /\ res.conn = [conn EXCEPT ![c].roomCode = code, ![c].symbol = slot]

\* C10 witness: two connections hold the slots of a room and a third, bound to
\* nothing, has been answered `Room is full`
C10_Witness ==
  \E c \in Conns, code \in DOMAIN rooms :
    /\ sent[c] = <<ErrorMsg("Room is full")>>
    /\ conn[c].roomCode = NoCode
    /\ rooms[code].players.X \notin {NoConn, c}
    /\ rooms[code].players.O \notin {NoConn, c, rooms[code].players.X}

\* The join message that names `code` as the server printed it
JoinOf(code) == KeyOf(code)

\* c is a connection just accepted: open and bound to nothing
Fresh(c) == IsOpen(c) /\ conn[c].roomCode = NoCode /\ conn[c].symbol = Null

\* C11 (as claimed): while the grace timer of a closed slot holder of room R
\* is pending, a join of R's code by a new connection of that client leaves R
\* in the store with board, currentPlayer, winner, isDraw and scores as they
\* were, and no timer that is pending after the join would delete R when it
\* fires.
C11_RejoinKeepsRoom ==
  \A t \in timers, c \in Conns, code \in DOMAIN rooms :
    (Fresh(c) /\ rooms[code].rid = t.room) =>
      LET res == JoinResult(c, JoinOf(code))
      IN res.conn[c].roomCode = code =>
           /\ code \in DOMAIN res.rooms
           /\ Game(res.rooms[code]) = Game(rooms[code])
           /\ \A u \in res.timers :
                res.conn[u.ws].roomCode = code => ~TimerDestroys(res.rooms, res.conn, u)

\* The codes under which the store holds the room object `rid`
CodesOf(rid) == {code \in DOMAIN rooms : rooms[code].rid = rid}

RoomClosedMsg == [type |-> "roomClosed", reason |-> "Opponent did not reconnect"]

\* Timer t fires on its own room, still in the store, with its slot empty:
\* the room is removed and the open holder of the other slot, and nobody
\* else, is sent roomClosed
FiresOnEmptySlot(t) ==
  \A code \in CodesOf(t.room) :
    rooms[code].players[t.sym] = NoConn =>
      LET res == TimerFireResult(t)
          opp == rooms[code].players[Opp(t.sym)]
      IN /\ res.rooms = DeleteRoom(rooms, code)
         /\ \A d \in Conns :
              res.sent[d] = IF d = opp /\ IsOpen(d) THEN <<RoomClosedMsg>> ELSE <<>>

\* C12 (as claimed): a grace timer that fires while slot S of its room is
\* still empty, no join having claimed it, removes the room and sends
\* roomClosed to the open holder of the other slot; a timer whose slot S a
\* new connection has joined since it was armed does nothing when it fires.
C12_GraceTimerOutcome ==
  \A t \in timers :
    /\ ~t.claimed => FiresOnEmptySlot(t)
    /\ t.claimed => TimerFireResult(t) = Untouched(NoSent)

\* The slots connection c occupies: the (code, symbol) pairs whose players
\* entry is c
SlotsOf(c) ==
  {sl \in (DOMAIN rooms) \X SymSet : rooms[sl[1]].players[sl[2]] = c}

\* C13 (as claimed): in every reachable state each connection occupies at
\* most one slot over all rooms, and every occupied slot is held by a
\* connection that is open.
C13_OneSlotPerConnection ==
  /\ \A c \in Conns : Cardinality(SlotsOf(c)) <= 1
  /\ \A code \in DOMAIN rooms, sym \in SymSet :
       rooms[code].players[sym] # NoConn => IsOpen(rooms[code].players[sym])

\* c is open and bound to a code that names no room of the store: the room
\* it was bound to has been destroyed
Orphan(c) == IsOpen(c) /\ RoomOf(c) # NoCode /\ RoomOf(c) \notin DOMAIN rooms

\* No move, reset or new of c changes a room of the store
NoEffectOf(c) ==
  /\ \A index \in IndexInputs : MoveResult(c, index).rooms = rooms
  /\ \A reverse \in BOOLEAN :
       ResetResult(c, reverse).rooms = rooms /\ NewResult(c, reverse).rooms = rooms

\* The last handler wrote no state message to c
NoStateMsg(c) == \A i \in 1..Len(sent[c]) : sent[c][i].type # "state"

\* C14 (as claimed): a connection whose room has been destroyed, and which
\* has not created or joined a room since, is sent no state message by any
\* later step, and after any later step (a create under the same code among
\* them) its move, reset and new still change no room of the store.
C14_DestroyedRoomIsGone ==
  [][\A c \in Conns :
       (Orphan(c) /\ conn'[c] = conn[c]) => (NoStateMsg(c) /\ NoEffectOf(c))']_vars

\* The state messages of a sequence of messages, in order
StateMsgs(msgs) == SelectSeq(msgs, LAMBDA m : m.type = "state")

\* In the result of a handler, every open holder of a slot of every room the
\* handler created or changed has been sent a state message, and the last
\* one sent to it is the view of that room from a slot it holds
Informs(res) ==
  \A code \in DOMAIN res.rooms :
    (code \notin DOMAIN rooms \/ res.rooms[code] # rooms[code]) =>
      \A sym \in SymSet :
        LET room == res.rooms[code]
            d == room.players[sym]
        IN (d # NoConn /\ res.conn[d].readyState = "open") =>
             /\ StateMsgs(res.sent[d]) # <<>>
             /\ \E s \in SymSet :
                  /\ room.players[s] = d
                  /\ StateMsgs(res.sent[d])[Len(StateMsgs(res.sent[d]))] = roomState(room, s)

\* C15 (as claimed): after every handler that changes a room (create, join,
\* an accepted move, reset, new, a disconnect), each open slot holder of the
\* room has been sent a state message, the last of which carries the room's
\* board, currentPlayer, winner, winningLine, isDraw and scores, its own slot
\* as mySymbol, opponentConnected as the other slot is occupied or not, and
\* playerCount as the number of occupied slots.
C15_BroadcastContract ==
  \A c \in Conns :
    IsOpen(c) =>
      /\ \A symbol \in SymSet, code \in makeCode :
           Informs(CreateResult(c, symbol, code))
      /\ \A msgCode \in JoinInputs : Informs(JoinResult(c, msgCode))
      /\ \A index \in IndexInputs : Informs(MoveResult(c, index))
      /\ \A reverse \in BOOLEAN :
           Informs(ResetResult(c, reverse)) /\ Informs(NewResult(c, reverse))
      /\ Informs(CloseResult(c))

\* C15 (amended): after every create, join, accepted move, reset and new,
\* each open slot holder of the room has been sent a state message, the last
\* of which is the room's view (board, currentPlayer, winner, winningLine,
\* isDraw, scores, mySymbol, opponentConnected, playerCount) from a slot it
\* holds; a disconnect sends no state message to anyone, only opponentLeft
\* to the open holder of the other slot.
C15_StateAfterMessages ==
  \A c \in Conns :
    IsOpen(c) =>
      /\ \A symbol \in SymSet, code \in makeCode :
           Informs(CreateResult(c, symbol, code))
      /\ \A msgCode \in JoinInputs : Informs(JoinResult(c, msgCode))
      /\ \A index \in IndexInputs : Informs(MoveResult(c, index))
      /\ \A reverse \in BOOLEAN :
           Informs(ResetResult(c, reverse)) /\ Informs(NewResult(c, reverse))
      /\ \A d \in Conns :
           LET out == CloseResult(c).sent[d]
           IN /\ StateMsgs(out) = <<>>
              /\ out # <<>> =>
                   /\ out = <<[type |-> "opponentLeft", gracePeriod |-> 60]>>
                   /\ d # c
                   /\ \E sym \in SymSet : rooms[RoomOf(c)].players[sym] = d

\* C15 witness: X has moved on cell 0 and the two holders of the room have
\* each been sent the room's state from their own slot, with playerCount 2
C15_Witness ==
  \E code \in DOMAIN rooms :
    LET room == rooms[code] IN
      /\ room.players.X # NoConn /\ room.players.O # NoConn
      /\ room.players.X # room.players.O
      /\ room.board.cell[0] = "X"
      /\ sent[room.players.X] = <<roomState(room, "X")>>
      /\ sent[room.players.O] = <<roomState(room, "O")>>
      /\ roomState(room, "O").playerCount = 2

\* The number of cells of the room's board that hold a symbol
Filled(room) == Cardinality({i \in Cells : room.board.cell[i] # Null})

\* C16 (as claimed): in every room moveCount is between 0 and 9 and is the
\* number of non-empty cells of the board, so that isDraw is set only on a
\* board of nine symbols.
C16_MoveCountIsFilledCells ==
  \A code \in DOMAIN rooms :
    /\ rooms[code].moveCount \in 0..9
    /\ rooms[code].moveCount = Filled(rooms[code])
    /\ rooms[code].isDraw => Filled(rooms[code]) = 9

\* C17: no two codes of the store name the same room object; a create
\* registers its room under a code that names no room of the store, as a new
\* room object, and leaves every room of the store under its code as it was.
C17_UniqueCodes ==
  /\ \A k1, k2 \in DOMAIN rooms : rooms[k1].rid = rooms[k2].rid => k1 = k2
  /\ \A code \in DOMAIN rooms : rooms[code].rid <= nextRid
  /\ \A c \in Conns, symbol \in SymSet, code \in makeCode :
       IsOpen(c) =>
         LET after == CreateResult(c, symbol, code).rooms
         IN /\ code \notin DOMAIN rooms
            /\ DOMAIN after = DOMAIN rooms \cup {code}
            /\ \A k \in DOMAIN rooms : after[k] = rooms[k]
            /\ \A k \in DOMAIN rooms : after[code].rid # rooms[k].rid

\* C17 witness: a second room has been created while the first is in the
\* store, and the two are under different codes
C17_Witness ==
  \E k1, k2 \in DOMAIN rooms :
    /\ k1 # k2
    /\ rooms[k1].rid = 1 /\ rooms[k2].rid = 2
    /\ rooms[k1].players # [X |-> NoConn, O |-> NoConn]

\* C18 (as claimed): every move that is accepted in a room is sent by the
\* connection in the room's slot of currentPlayer; a connection that is not
\* in that slot (it holds the other slot, or no slot of the room) has no
\* move accepted.
C18_MoverHoldsTheSlot ==
  \A c \in Conns, index \in IndexInputs :
    Accepted(c, index) =>
      rooms[RoomOf(c)].players[rooms[RoomOf(c)].currentPlayer] = c

\* C19 (as claimed): after the close of connection c, c is in no slot of
\* any room, every slot that another connection held is still held by it,
\* the store has the same rooms, and each has its board, moveCount,
\* currentPlayer, winner, isDraw and scores as before.
C19_CloseRemovesOnlyCloser ==
  \A c \in Conns :
    IsOpen(c) =>
      LET after == CloseResult(c).rooms
      IN /\ DOMAIN after = DOMAIN rooms
         /\ \A code \in DOMAIN rooms, sym \in SymSet :
              /\ after[code].players[sym] # c
              /\ rooms[code].players[sym] # c =>
                   after[code].players[sym] = rooms[code].players[sym]
         /\ \A code \in DOMAIN rooms : Game(after[code]) = Game(rooms[code])

\* C20 (as claimed): a grace timer that would delete a room when it fires
\* is the timer of a disconnect in that same room object, whose slot S no
\* connection has been put in since the disconnect; so no timer deletes a
\* room created later under the same code, or a room whose slot S was taken
\* again and vacated by a later disconnect.
C20_TimerDestroysOnlyItsRoom ==
  \A t \in timers :
    TimerDestroys(rooms, conn, t) =>
      /\ rooms[conn[t.ws].roomCode].rid = t.room
      /\ ~t.held

====
